---- MODULE Spec2Model ----
(***************************************************************************)
(* Model of jdrones/envs/position.py: BasePositionDroneEnv (reset,         *)
(* get_reward), PolyPositionDroneEnv.step / calc_traj and                  *)
(* LQRPositionDroneEnv.step.                                               *)
(*                                                                         *)
(* Numbers.  Lengths and angles are integers counted in units of 0.001,    *)
(* time in ticks of dt.  A Euclidean norm is carried as its square, which  *)
(* is exact on integers: for d >= 0, d < 0.01 iff d*d < 0.0001, that is    *)
(* iff the squared norm in grid units is < 100.  The float NaN is the      *)
(* value NaN below; every arithmetic operator propagates it and every      *)
(* comparison with it is FALSE, as in IEEE 754.                            *)
(***************************************************************************)
EXTENDS Integers, Sequences, FiniteSets, TLC

(***************************************************************************)
(* Bounds of the model.                                                    *)
(***************************************************************************)
\* ticks one step call may run in the model
MaxTicks == 5
\* longest state sequence handed to get_reward on its own
RewardLen == 2

(***************************************************************************)
(* IEEE-754 arithmetic with NaN.                                           *)
(***************************************************************************)
NaN == -999999

isnan(a) == a = NaN

\* The operations are functions of their operands' values.
FAdd[a \in Int, b \in Int] == IF isnan(a) \/ isnan(b) THEN NaN ELSE a + b

FSub[a \in Int, b \in Int] == IF isnan(a) \/ isnan(b) THEN NaN ELSE a - b

FMul[a \in Int, b \in Int] == IF isnan(a) \/ isnan(b) THEN NaN ELSE a * b

FHalf[a \in Int] == IF isnan(a) THEN NaN ELSE a \div 2

FAbs[a \in Int] == IF isnan(a) THEN NaN ELSE IF a < 0 THEN -a ELSE a

FLt[a \in Int, b \in Int] == ~isnan(a) /\ ~isnan(b) /\ a < b

FGt[a \in Int, b \in Int] == ~isnan(a) /\ ~isnan(b) /\ a > b

fAdd(a, b) == FAdd[a, b]

fSub(a, b) == FSub[a, b]

fMul(a, b) == FMul[a, b]

fHalf(a) == FHalf[a]

fAbs(a) == FAbs[a]

fLt(a, b) == FLt[a, b]

fGt(a, b) == FGt[a, b]

\* squared np.linalg.norm of a vector (a sequence of numbers)
RECURSIVE SumSquaresFrom(_, _)
SumSquaresFrom(v, i) ==
    IF i > Len(v) THEN 0 ELSE fAdd(fMul(v[i], v[i]), SumSquaresFrom(v, i + 1))

VNorm2[v \in Seq(Int)] == SumSquaresFrom(v, 1)

Norm2(v) == VNorm2[v]

(***************************************************************************)
(* jdrones.data_models.State: a vector of 20 named components.             *)
(***************************************************************************)
FieldNames ==
    << "x", "y", "z", "qx", "qy", "qz", "qw", "phi", "theta", "psi",
       "vx", "vy", "vz", "p", "q", "r", "P0", "P1", "P2", "P3" >>

Fields == { FieldNames[i] : i \in DOMAIN FieldNames }

\* State(): the default state vector
State0 == [f \in Fields |-> 0]

pos(s) == << s["x"], s["y"], s["z"] >>

vel(s) == << s["vx"], s["vy"], s["vz"] >>

rpy(s) == << s["phi"], s["theta"], s["psi"] >>

\* s.pos = v
SetPos(s, v) == [s EXCEPT !["x"] = v[1], !["y"] = v[2], !["z"] = v[3]]

\* s.vel = v
SetVel(s, v) == [s EXCEPT !["vx"] = v[1], !["vy"] = v[2], !["vz"] = v[3]]

\* a - b on vectors of the same length
VDiff[a \in Seq(Int), b \in Seq(Int)] == [i \in DOMAIN a |-> fSub(a[i], b[i])]

VSub(a, b) == VDiff[a, b]

\* the dict {} and the dicts over the key "error"
EmptyDict == [k \in {} |-> 0]

HasKey(d, k) == k \in DOMAIN d

\* d[k] = v
DictSet(d, k, v) == [j \in (DOMAIN d) \cup {k} |-> IF j = k THEN v ELSE d[j]]

(***************************************************************************)
(* BasePositionDroneEnv.get_reward                                         *)
(***************************************************************************)
\* States.to_df: one row (t, variable, value) per component per tick
to_df(states) ==
    LET n == Len(states)
    IN  [r \in 1..(Len(FieldNames) * n) |->
            LET i == ((r - 1) \div n) + 1
                j == ((r - 1) % n) + 1
            IN  [t |-> j - 1, variable |-> FieldNames[i], value |-> states[j][FieldNames[i]]]]

\* the time stamps of the frame
Times(df) == { df[i].t : i \in DOMAIN df }

\* the k-th smallest of the time stamps ts
KthTime(ts, k) == CHOOSE a \in ts : Cardinality({ b \in ts : b < a }) = k - 1

\* the rows with time stamp m, in the order of the frame
RowsAt(df, m) == SelectSeq(df, LAMBDA r : r.t = m)

\* the rows of the k-th smallest time stamp and of the later ones, in that order
RECURSIVE SortRowsFrom(_, _, _)
SortRowsFrom(df, ts, k) ==
    IF k > Cardinality(ts) THEN <<>>
    ELSE RowsAt(df, KthTime(ts, k)) \o SortRowsFrom(df, ts, k + 1)

\* df.sort_values("t"): the rows in ascending order of t
sort_values(df) == SortRowsFrom(df, Times(df), 1)

\* .groupby(df.variable): the rows of one variable, in the order of the frame
Group(df, var) == SelectSeq(df, LAMBDA r : r.variable = var)

\* np.trapz(y, x=x) = sum of (x[i+1] - x[i]) * (y[i+1] + y[i]) / 2
RECURSIVE TrapzFrom(_, _, _)
TrapzFrom(y, x, i) ==
    IF i >= Len(y) THEN 0
    ELSE fAdd(fHalf(fMul(fSub(x[i + 1], x[i]), fAdd(y[i + 1], y[i]))), TrapzFrom(y, x, i + 1))

trapz(y, x) == TrapzFrom(y, x, 1)

\* lambda r: np.trapz(r.value.abs(), x=r.t)
GroupIntegral(g) ==
    trapz([i \in DOMAIN g |-> fAbs(g[i].value)], [i \in DOMAIN g |-> g[i].t])

\* df_sums[keys] = 0
ZeroKeys(sums, keys) == [v \in DOMAIN sums |-> IF v \in keys THEN 0 ELSE sums[v]]

\* df_sums[keys] *= k
ScaleKeys(sums, keys, k) ==
    [v \in DOMAIN sums |-> IF v \in keys THEN fMul(sums[v], k) ELSE sums[v]]

\* 0 for NaN
FSkipNa[a \in Int] == IF isnan(a) THEN 0 ELSE a

\* pandas Series.sum(): skipna=True, the NaN entries are left out
RECURSIVE SumSkipNaFrom(_, _)
SumSkipNaFrom(sums, i) ==
    IF i > Len(FieldNames) THEN 0
    ELSE FSkipNa[sums[FieldNames[i]]] + SumSkipNaFrom(sums, i + 1)

series_sum(sums) == SumSkipNaFrom(sums, 1)

\* line 93: df_sums[["P0", "P1", "P2", "P3"]] = 0
ActuatorKeys == { "P0", "P1", "P2", "P3" }

QuatKeys_ForgetsQw == { "qx", "qy", "qz" }

\* line 94: df_sums[["qw", "qx", "qy", "qz"]] = 0
QuatKeys == { "qw", "qx", "qy", "qz" }

\* line 95: df_sums[["x", "y", "z"]] *= 1000
PosKeys == { "x", "y", "z" }

PosWeight_Hundred == 10 * 10

PosWeight == 1000

\* line 96: df_sums[["phi", "theta", "psi"]] *= 10
RpyKeys == { "phi", "theta", "psi" }

RpyWeight == 10

get_reward(states) ==
    LET df      == to_df(states)
        sorted  == sort_values(df)
        df_sums == [v \in Fields |-> GroupIntegral(Group(sorted, v))]
        s1      == ZeroKeys(df_sums, ActuatorKeys)
        s2      == ZeroKeys(s1, QuatKeys)
        s3      == ScaleKeys(s2, PosKeys, PosWeight)
        s4      == ScaleKeys(s3, RpyKeys, RpyWeight)
    IN  series_sum(s4)

(***************************************************************************)
(* The values the model draws from.                                        *)
(***************************************************************************)
PosA == << 0, 0, 1000 >>

PosB == << 6, 6, 1000 >>

PosC == << 6, 6, 1006 >>

PosD == << 12, 0, 1000 >>

PosNaN == << NaN, 0, 1000 >>

\* the targets a caller passes to step: inside x, y in [0, 10], z in [1, 10]
Actions == { PosA, PosC }

\* the states the underlying model can be in after reset or step
EnvStates ==
    { SetPos(State0, p) : p \in { PosA, PosB, PosC, PosD, PosNaN } }
        \cup { [SetPos(State0, PosB) EXCEPT !["phi"] = 8] }

Seeds == { "None", "seed7" }

Options == { "None", "opts" }

(***************************************************************************)
(* References.  A component of the reference State u is a term: a number,  *)
(* or the value of the trajectory's position / velocity polynomial of one  *)
(* axis at the time of tick k (t = k * dt).                                *)
(***************************************************************************)
Terms == [kind : { "const", "position", "velocity" }, val : Int, k : Int]

Const(n) == [kind |-> "const", val |-> n, k |-> 0]

ConstVec(v) == [i \in DOMAIN v |-> Const(v[i])]

\* traj.position(t), traj.velocity(t) at t = k * dt
TrajPosition(k) == [i \in 1..3 |-> [kind |-> "position", val |-> i, k |-> k]]

TrajVelocity(k) == [i \in 1..3 |-> [kind |-> "velocity", val |-> i, k |-> k]]

\* a State whose components are terms
AsTerms(s) == [f \in Fields |-> Const(s[f])]

\* State.to_x(): the flat vector of the 20 components
References == [Fields -> Terms]

ToX[s \in References] == [i \in DOMAIN FieldNames |-> s[FieldNames[i]]]

to_x(s) == ToX[s]

\* the numbers of a vector of numeric terms
TermValues[v \in Seq(Terms)] == [i \in DOMAIN v |-> v[i].val]

Numbers(v) == TermValues[v]

(***************************************************************************)
(* PolyPositionDroneEnv.calc_traj                                          *)
(***************************************************************************)
\* max_vel: float = 1
MaxVel == 1

\* dt: float = 1 / 240
DtInv == 240

\* grid units per unit of length
GridInv == 1000

\* the squared duration T*T, T = dist / max_vel, in grid units
calc_traj(cur, tgt) ==
    LET dist2 == Norm2(VSub(pos(tgt), pos(cur)))
    IN  [ start_pos |-> pos(cur), start_vel |-> vel(cur),
          dest_pos |-> pos(tgt), dest_vel |-> vel(tgt),
          T2 |-> IF isnan(dist2) THEN NaN ELSE dist2 \div (MaxVel * MaxVel) ]

(***************************************************************************)
(* The loop bodies of the two step methods.                                *)
(***************************************************************************)
TimeAfter_Inclusive(k, T2) ==
    k >= 0 /\ ~fLt((GridInv * k) * (GridInv * k), fMul(DtInv * DtInv, T2))

\* t > traj.T with t = k * dt: k / DtInv > sqrt(T2) / GridInv
TimeAfter(k, T2) ==
    k > 0 /\ fGt((GridInv * k) * (GridInv * k), fMul(DtInv * DtInv, T2))

\* lines 117-122: the reference of one tick of the trajectory variant
PolyReference(u0, k, tr, act) ==
    IF TimeAfter(k, tr.T2)
    THEN SetVel(SetPos(u0, ConstVec(act)), ConstVec(<< 0, 0, 0 >>))
    ELSE SetVel(SetPos(u0, TrajPosition(k)), TrajVelocity(k))

\* the calls to traj.position / traj.velocity one tick makes
PolyEvals(k, tr) ==
    IF TimeAfter(k, tr.T2) THEN <<>>
    ELSE << [fn |-> "position", k |-> k], [fn |-> "velocity", k |-> k] >>

LqrReference_Drifts(u0) == SetVel(u0, TrajVelocity(0))

\* lines 167, 173: u is computed before the loop and passed to every tick as it is
LqrReference(u0) == u0

\* line 128: np.linalg.norm(self.env.state.pos - action_as_state.pos)
PolyDist(state, act) == Norm2(VSub(pos(state), act))

LqrDist_PositionOnly(e) == Norm2(e.pos)

\* line 178: np.linalg.norm(np.concatenate([e.pos, e.rpy]))
LqrDist(e) == Norm2(e.pos \o e.rpy)

\* 0.01, squared, in grid units
Threshold2 == (GridInv \div 100) * (GridInv \div 100)

\* np.any(np.isnan(dist))
Diverged(d) == isnan(d)

Converged_Never(d) == FALSE

\* dist < 0.01
Converged(d) == fLt(d, Threshold2)

TruncAfter_NoNaNCheck(d, env_trunc) == env_trunc

\* lines 129-130 / 179-180
TruncAfter(d, env_trunc) == IF Diverged(d) THEN TRUE ELSE env_trunc

TermAfter_FromModel(d, env_term) == env_term

TermAfter_WideThreshold(d, env_term) == IF fLt(d, 120) THEN TRUE ELSE env_term

\* lines 132-133 / 182-183
TermAfter(d, env_term) == IF Converged(d) THEN TRUE ELSE env_term

InfoAfter_NoError(d, env_info) == env_info

\* lines 132-134 / 182-184
InfoAfter(d, env_info) == IF Converged(d) THEN DictSet(env_info, "error", d) ELSE env_info

LoopRuns_Never(tm, tr) == FALSE

\* while not (term or trunc)
LoopRuns(tm, tr) == ~(tm \/ tr)

AppendObs_Left(obss, obs) == << obs >> \o obss

\* observations.append(obs.copy())
AppendObs(obss, obs) == Append(obss, obs)

(***************************************************************************)
(* The underlying model (LQRDroneEnv), at its interface.                   *)
(***************************************************************************)
\* controllers["lqr"].e after a step with the numeric reference x that ended in
\* state s: the setpoint minus the measured state, for position and angles
ModelStates == [Fields -> Int]

ErrorSignal[x \in Seq(Terms), s \in ModelStates] ==
    [pos |-> VSub(Numbers(SubSeq(x, 1, 3)), pos(s)),
     rpy |-> VSub(Numbers(SubSeq(x, 8, 10)), rpy(s))]

EnvError(x, s) == ErrorSignal[x, s]

\* what the underlying model's step returns beside the observation:
\* terminated, truncated, info
EnvReturns ==
    { [term |-> FALSE, trunc |-> FALSE, info |-> EmptyDict],
      [term |-> FALSE, trunc |-> FALSE, info |-> DictSet(EmptyDict, "error", 500)],
      [term |-> TRUE, trunc |-> FALSE, info |-> EmptyDict],
      [term |-> FALSE, trunc |-> TRUE, info |-> EmptyDict],
      [term |-> TRUE, trunc |-> TRUE, info |-> EmptyDict] }

\* one call of self.env.step(x) and what it returned
StepEntry(x, obs, r) ==
    [op |-> "step", seed |-> "None", options |-> "None", x |-> x,
     obs |-> obs, term |-> r.term, trunc |-> r.trunc]

\* one call of self.env.reset(seed=seed, options=options) and what it returned
ResetEntry(seed, options, obs) ==
    [op |-> "reset", seed |-> seed, options |-> options, x |-> <<>>,
     obs |-> obs, term |-> FALSE, trunc |-> FALSE]

(***************************************************************************)
(* State of the program.                                                   *)
(***************************************************************************)
VARIABLES
    variant,        \* the class of the environment: "poly" or "lqr"
    env_state,      \* self.env.state
    env_log,        \* the calls the running operation made to self.env
    pc,             \* "idle", "loop" (inside step's while), "done" (returned)
    action,         \* step's argument
    traj,           \* the trajectory of the running step call
    traj_evals,     \* the calls made to traj.position / traj.velocity
    u,              \* the reference State (components are terms)
    observations,   \* the deque of observations
    term, trunc, info,
    counter,        \* the next value of itertools.count(-1)
    t,              \* the tick time of the last tick, in ticks
    dist,           \* the error measured by the last tick
    ret,            \* what the last operation returned
    reset_args,     \* the arguments of the last reset call
    stepped,        \* a step call has returned on this environment before
    rw_in, rw_out   \* get_reward called on its own: argument and result

vars == << variant, env_state, env_log, pc, action, traj, traj_evals, u,
           observations, term, trunc, info, counter, t, dist, ret, reset_args,
           stepped, rw_in, rw_out >>

env_vars == << env_state, env_log >>

local_vars == << action, traj, traj_evals, u, observations, term, trunc, info,
                 counter, t, dist >>

rw_vars == << rw_in, rw_out >>

NoTraj == calc_traj(State0, State0)

NoArgs == [seed |-> "None", options |-> "None"]

NoReturn ==
    [op |-> "none", states |-> <<>>, reward |-> 0, term |-> FALSE, trunc |-> FALSE,
     info |-> EmptyDict]

InitWith(variants, states) ==
    /\ variant \in variants
    /\ env_state \in states
    /\ env_log = <<>>
    /\ pc = "idle"
    /\ action = PosA
    /\ traj = NoTraj
    /\ traj_evals = <<>>
    /\ u = AsTerms(State0)
    /\ observations = <<>>
    /\ term = FALSE
    /\ trunc = FALSE
    /\ info = EmptyDict
    /\ counter = -1
    /\ t = -1
    /\ dist = 0
    /\ ret = NoReturn
    /\ reset_args = NoArgs
    /\ stepped = FALSE
    /\ rw_in = <<>>
    /\ rw_out = 0

Init == InitWith({ "poly", "lqr" }, EnvStates)

\* the locals of a step call that has returned are dead: they read as at Init
ClearLocals ==
    /\ action' = PosA
    /\ traj' = NoTraj
    /\ traj_evals' = <<>>
    /\ u' = AsTerms(State0)
    /\ observations' = <<>>
    /\ term' = FALSE
    /\ trunc' = FALSE
    /\ info' = EmptyDict
    /\ counter' = -1
    /\ t' = -1
    /\ dist' = 0

(***************************************************************************)
(* BasePositionDroneEnv.reset                                              *)
(***************************************************************************)
\* States([np.copy(obs)]), {}
ResetReturn(obs) ==
    [op |-> "reset", states |-> << obs >>, reward |-> 0, term |-> FALSE,
     trunc |-> FALSE, info |-> EmptyDict]

EnvResetCalls_DropsSeed(seed, options, obs) == << ResetEntry("None", options, obs) >>

\* line 48: obs, _ = self.env.reset(seed=seed, options=options)
EnvResetCalls(seed, options, obs) == << ResetEntry(seed, options, obs) >>

Reset ==
    /\ pc \in { "idle", "done" }
    /\ \E seed \in Seeds, options \in Options, obs \in EnvStates :
          /\ reset_args' = [seed |-> seed, options |-> options]
          /\ env_state' = obs
          /\ env_log' = EnvResetCalls(seed, options, obs)
          /\ ret' = ResetReturn(obs)
    /\ pc' = "done"
    /\ ClearLocals
    /\ UNCHANGED << variant, stepped, rw_vars >>

(***************************************************************************)
(* step: lines 105-114 (trajectory variant) and 165-171 (setpoint variant) *)
(***************************************************************************)
NewDeque_Shared == observations

\* observations = collections.deque()
NewDeque == <<>>

StepCall ==
    /\ pc \in { "idle", "done" }
    /\ \E act \in Actions :
          LET action_as_state == SetPos(State0, act)
          IN  /\ action' = act
              /\ traj' = IF variant = "poly" THEN calc_traj(env_state, action_as_state)
                         ELSE NoTraj
              /\ u' = AsTerms(action_as_state)
    /\ observations' = NewDeque
    /\ term' = FALSE
    /\ trunc' = FALSE
    /\ info' = EmptyDict
    /\ counter' = -1
    /\ traj_evals' = <<>>
    /\ env_log' = <<>>
    /\ t' = -1
    /\ dist' = 0
    /\ ret' = NoReturn
    /\ reset_args' = NoArgs
    /\ pc' = "loop"
    /\ UNCHANGED << variant, env_state, stepped, rw_vars >>

(***************************************************************************)
(* One iteration of the while loop: lines 116-134 and 173-184.             *)
(***************************************************************************)
TickWith(outcomes) ==
    /\ pc = "loop"
    /\ LoopRuns(term, trunc)
    /\ Len(observations) < MaxTicks
    /\ \E s \in outcomes, r \in EnvReturns :
          LET k  == counter
              un == IF variant = "poly" THEN PolyReference(u, k, traj, action)
                    ELSE LqrReference(u)
              x  == to_x(un)
              d  == IF variant = "poly" THEN PolyDist(s, action)
                    ELSE LqrDist(EnvError(x, s))
          IN  /\ u' = un
              /\ traj_evals' = IF variant = "poly" THEN traj_evals \o PolyEvals(k, traj)
                               ELSE traj_evals
              /\ counter' = IF variant = "poly" THEN counter + 1 ELSE counter
              /\ t' = IF variant = "poly" THEN k ELSE t
              /\ env_state' = s
              /\ env_log' = Append(env_log, StepEntry(x, s, r))
              /\ observations' = AppendObs(observations, s)
              /\ dist' = d
              /\ trunc' = TruncAfter(d, r.trunc)
              /\ term' = TermAfter(d, r.term)
              /\ info' = InfoAfter(d, r.info)
    /\ UNCHANGED << variant, pc, action, traj, ret, reset_args, stepped, rw_vars >>

Tick == TickWith(EnvStates)

(***************************************************************************)
(* Loop exit: lines 136-137 and 186-187.                                   *)
(***************************************************************************)
StepResult_DropsLast(obss, tm, tr, inf) ==
    [op |-> "step", states |-> obss,
     reward |-> get_reward(SubSeq(obss, 1, Len(obss) - 1)), term |-> tm,
     trunc |-> tr, info |-> inf]

\* states = States(observations);
\* return states, self.get_reward(states), term, trunc, info
StepResult(obss, tm, tr, inf) ==
    [op |-> "step", states |-> obss, reward |-> get_reward(obss), term |-> tm,
     trunc |-> tr, info |-> inf]

StepReturn ==
    /\ pc = "loop"
    /\ ~LoopRuns(term, trunc)
    /\ ret' = StepResult(observations, term, trunc, info)
    /\ pc' = "done"
    /\ stepped' = TRUE
    /\ UNCHANGED << variant, env_vars, local_vars, reset_args, rw_vars >>

Next == Reset \/ StepCall \/ Tick \/ StepReturn

Spec == Init /\ [][Next]_vars

(***************************************************************************)
(* Convergent dynamics: the underlying model's step brings the measured    *)
(* error strictly down, or keeps it below the threshold, and never makes   *)
(* it NaN.  The flags it returns stay its own business.                    *)
(***************************************************************************)
\* the error the loop measures when the underlying model is in state s
Measured(s) ==
    IF variant = "poly" THEN PolyDist(s, action)
    ELSE LqrDist(EnvError(to_x(AsTerms(SetPos(State0, action))), s))

ConvergentOutcomes ==
    { s \in EnvStates :
        fLt(Measured(s), Measured(env_state)) \/ fLt(Measured(s), Threshold2) }

ConvTick == TickWith(ConvergentOutcomes)

NextConv == Reset \/ StepCall \/ ConvTick \/ StepReturn

\* the loop is synchronous code: while it can take its next iteration or
\* return, it does
SpecConv == Init /\ [][NextConv]_vars /\ WF_vars(ConvTick) /\ WF_vars(StepReturn)

(***************************************************************************)
(* get_reward on its own: a static method applied to a drawn sequence.     *)
(***************************************************************************)
Dense == [f \in Fields |-> 4]

\* every component in turn off zero, a state with all components set, and NaN
\* in a position, a quaternion and an actuator component
RewardStates ==
    { [State0 EXCEPT ![f] = -2] : f \in Fields }
        \cup { State0, Dense }
        \cup { [Dense EXCEPT ![f] = NaN] : f \in { "x", "qw", "P0" } }

RewardTail ==
    { State0, Dense, [State0 EXCEPT !["x"] = -2], [State0 EXCEPT !["qw"] = -2],
      [Dense EXCEPT !["x"] = NaN], [Dense EXCEPT !["qw"] = NaN] }

RECURSIVE RewardSeqs(_)
RewardSeqs(n) ==
    IF n = 1 THEN { << s >> : s \in RewardStates }
    ELSE { Append(q, s) : q \in RewardSeqs(n - 1), s \in RewardTail }

RewardInputs == UNION { RewardSeqs(n) : n \in 1..RewardLen }

RewardCall ==
    /\ rw_in = <<>>
    /\ \E states \in RewardInputs :
          /\ rw_in' = states
          /\ rw_out' = get_reward(states)
    /\ UNCHANGED << variant, env_vars, pc, local_vars, ret, reset_args, stepped >>

InitReward == InitWith({ "poly" }, { SetPos(State0, PosA) })

SpecReward == InitReward /\ [][RewardCall]_vars

(***************************************************************************)
(* Properties.                                                             *)
(***************************************************************************)
\* a step call has run at least one tick (its locals are live)
Ticked == pc \in { "loop", "done" } /\ Len(observations) > 0

\* a step call has returned
Returned == pc = "done" /\ ret.op = "step"

LastCall == env_log[Len(env_log)]

Below(d) == d # NaN /\ d < Threshold2

\* C1: from a loop state whose last tick measured a numeric error below 0.01,
\* terminated is True, info["error"] is that error, and the only step is the
\* return: no further tick, and step returns terminated = True with
\* info["error"] equal to the error the last tick measured.
C1_Convergence ==
    [][ (pc = "loop" /\ Len(observations) > 0 /\ Below(dist)) =>
            /\ term
            /\ HasKey(info, "error") /\ info["error"] = dist
            /\ env_log' = env_log
            /\ pc' = "done" /\ ret'.op = "step" /\ ret'.term
            /\ HasKey(ret'.info, "error") /\ ret'.info["error"] = dist ]_vars

C1_Witness ==
    /\ Returned /\ Below(dist) /\ dist > 0
    /\ Len(ret.states) >= 2
    /\ ret.term /\ ret.info["error"] = dist

\* C2: from a loop state whose last tick measured NaN, truncated is True and
\* the only step is the return: no further call to the underlying model, and
\* step returns with truncated = True.
C2_Divergence ==
    [][ (pc = "loop" /\ Len(observations) > 0 /\ dist = NaN) =>
            /\ trunc
            /\ env_log' = env_log
            /\ pc' = "done" /\ ret'.op = "step" /\ ret'.trunc
            /\ ret'.states = observations ]_vars

C2_Witness ==
    /\ Returned /\ dist = NaN /\ ret.trunc /\ ~ret.term
    /\ Len(ret.states) >= 2
    /\ ~LastCall.trunc

\* C3 as stated: every step call that returns measured, on its last tick, an
\* error below 0.01 or NaN.
C3_OnlyErrorEndsLoop == Returned => (Below(dist) \/ dist = NaN)

\* C3 amended: the loop ends exactly when the last tick measured an error
\* below 0.01 or NaN, or the underlying model's step returned terminated or
\* truncated as True on that tick; nothing else (no step cap) ends it.
C3_LoopEnds ==
    /\ Returned => (Below(dist) \/ dist = NaN \/ LastCall.term \/ LastCall.trunc)
    /\ (Ticked /\ (term \/ trunc)) =>
            (Below(dist) \/ dist = NaN \/ LastCall.term \/ LastCall.trunc)
    /\ (Ticked /\ ~(term \/ trunc)) =>
            ~(Below(dist) \/ dist = NaN \/ LastCall.term \/ LastCall.trunc)

C3_Witness ==
    /\ Returned /\ ~Below(dist) /\ dist # NaN
    /\ LastCall.trunc /\ ~LastCall.term
    /\ Len(ret.states) >= 2

\* C4 as stated: whenever step returns terminated = True, info holds "error"
\* and its value is below 0.01.
C4_TerminatedMeansGoal ==
    (Returned /\ ret.term) => (HasKey(ret.info, "error") /\ Below(ret.info["error"]))

\* C4 amended: whenever step returns terminated = True, either the last tick
\* measured an error below 0.01 and info["error"] is that error, or the
\* underlying model's step returned terminated = True on the last tick.
C4_TerminatedMeansGoalOrModel ==
    (Returned /\ ret.term) =>
        \/ Below(dist) /\ HasKey(ret.info, "error") /\ ret.info["error"] = dist
        \/ LastCall.term

C4_Witness ==
    /\ Returned /\ ret.term /\ ~Below(dist)
    /\ LastCall.term
    /\ ~HasKey(ret.info, "error")

\* the outcome C5 promises
GoalReached ==
    Returned /\ ret.term /\ HasKey(ret.info, "error") /\ Below(ret.info["error"])

\* C5 as stated: under convergent dynamics every step call eventually returns
\* with terminated = True and info["error"] < 0.01.
C5_ReturnsConverged == (pc = "loop") ~> GoalReached

\* C5 amended: under convergent dynamics every step call eventually returns;
\* it returns terminated = True with info["error"] < 0.01 unless the
\* underlying model's step returned terminated or truncated as True on the
\* last tick.
C5_Returns ==
    (pc = "loop") ~> (Returned /\ (GoalReached \/ LastCall.term \/ LastCall.trunc))

C5_Witness ==
    /\ GoalReached /\ Len(ret.states) >= 3
    /\ ~LastCall.term /\ ~LastCall.trunc

\* C6: the observations of a step call are the observations the underlying
\* model's step returned during the call, one per call, in call order, the
\* last tick's included; the returned States is that sequence.
C6_OnePerTick ==
    /\ pc = "loop" \/ Returned =>
          /\ Len(observations) = Len(env_log)
          /\ \A i \in DOMAIN env_log :
                env_log[i].op = "step" /\ observations[i] = env_log[i].obs
    /\ Returned =>
          /\ ret.states = observations
          /\ Len(ret.states) = Len(env_log)
          /\ ret.states[Len(ret.states)] = env_state

C6_Witness ==
    /\ Returned /\ Len(ret.states) >= 3
    /\ ret.states[1] # ret.states[2]
    /\ ret.states[2] # ret.states[3]

\* C7 as stated: called with the model at the target, the trajectory variant
\* computes T = 0 and feeds the hold reference (target, zero velocity) from
\* the first tick on, without evaluating the trajectory.
C7_DegenerateHolds ==
    (variant = "poly" /\ Ticked /\ traj.start_pos = traj.dest_pos /\ ~isnan(traj.T2)) =>
        /\ traj.T2 = 0
        /\ traj_evals = <<>>
        /\ \A i \in DOMAIN env_log :
              env_log[i].x = to_x(AsTerms(SetPos(State0, action)))

\* C8: reset calls the underlying model's reset once, with its own seed and
\* options, and returns a States of exactly that one observation and {}.
C8_Reset ==
    (pc = "done" /\ ret.op = "reset") =>
        /\ Len(env_log) = 1
        /\ env_log[1].op = "reset"
        /\ env_log[1].seed = reset_args.seed
        /\ env_log[1].options = reset_args.options
        /\ ret.states = << env_log[1].obs >>
        /\ ret.info = EmptyDict

C8_Witness ==
    /\ pc = "done" /\ ret.op = "reset"
    /\ reset_args.seed = "seed7" /\ reset_args.options = "opts"
    /\ ret.states = << SetPos(State0, PosC) >>

\* the weight the documentation gives each component
Weight(f) ==
    IF f \in { "x", "y", "z" } THEN 1000
    ELSE IF f \in { "phi", "theta", "psi" } THEN 10
    ELSE IF f \in { "vx", "vy", "vz", "p", "q", "r" } THEN 1
    ELSE 0

Abs(a) == IF a < 0 THEN -a ELSE a

\* the trapezoidal integral of |f| over the ticks 0, 1, ..., twice
RECURSIVE TwiceIntegral(_, _, _)
TwiceIntegral(states, f, i) ==
    IF i >= Len(states) THEN 0
    ELSE Abs(states[i][f]) + Abs(states[i + 1][f]) + TwiceIntegral(states, f, i + 1)

RECURSIVE TwiceWeightedSum(_, _)
TwiceWeightedSum(states, fs) ==
    IF fs = {} THEN 0
    ELSE LET f == CHOOSE a \in fs : TRUE
         IN  Weight(f) * TwiceIntegral(states, f, 1) + TwiceWeightedSum(states, fs \ {f})

NoNaN(states) == \A i \in DOMAIN states : \A f \in Fields : states[i][f] # NaN

WithQuatAct(states, i, v) ==
    [states EXCEPT ![i] =
        [f \in Fields |-> IF f \in { "qw", "qx", "qy", "qz", "P0", "P1", "P2", "P3" }
                          THEN v ELSE states[i][f]]]

\* C10: a sequence that differs from the argument only in quaternion and
\* actuator components of a state has the same reward.
C10_IgnoresQuatAct ==
    rw_in # <<>> =>
        \A i \in DOMAIN rw_in : \A v \in { 0, 6, -8, NaN } :
            get_reward(WithQuatAct(rw_in, i, v)) = rw_out

C10_Witness ==
    /\ Len(rw_in) = 2
    /\ rw_in[1]["qw"] = -2 /\ rw_in[2] = Dense
    /\ rw_out > 0

\* a value of some component of some state of the sequence is NaN
HasNaN(states) == \E i \in DOMAIN states : \E f \in Fields : states[i][f] = NaN

\* C11 as stated: if any value of any field of any state of the argument is
\* NaN, get_reward returns NaN.
C11_PropagatesNaN == (rw_in # <<>> /\ HasNaN(rw_in)) => rw_out = NaN

\* the tick time k * dt lies in [0, T], T a number
InDomain(k) ==
    /\ k >= 0
    /\ traj.T2 # NaN
    /\ (GridInv * k) * (GridInv * k) <= (DtInv * DtInv) * traj.T2

\* C12 as stated: every time at which a step call of the trajectory variant
\* calls traj.position or traj.velocity lies in [0, T], and the first such
\* time is 0.
C12_EvaluatedInDomain ==
    (variant = "poly" /\ Ticked) =>
        /\ \A i \in DOMAIN traj_evals : InDomain(traj_evals[i].k)
        /\ traj_evals # <<>> => traj_evals[1].k = 0

\* the tick time k * dt is past the duration T, T a number
PastT(k) ==
    /\ k > 0
    /\ traj.T2 # NaN
    /\ (GridInv * k) * (GridInv * k) > (DtInv * DtInv) * traj.T2

\* the reference vector x holds the target and zero velocity
IsHold(x) ==
    /\ SubSeq(x, 1, 3) = [i \in 1..3 |-> Const(action[i])]
    /\ SubSeq(x, 11, 13) = [i \in 1..3 |-> Const(0)]

\* the reference vector x holds the trajectory's position and velocity at k * dt
IsTrack(x, k) ==
    /\ \A i \in 1..3 : x[i] = [kind |-> "position", val |-> i, k |-> k]
    /\ \A i \in 1..3 : x[10 + i] = [kind |-> "velocity", val |-> i, k |-> k]

\* C13: in a step call of the trajectory variant the i-th tick has time
\* (i - 2) * dt; the reference it passes to the model's step holds the target
\* and zero velocity if that time is past T, and traj.position(t),
\* traj.velocity(t) if it is in [.., T]; after a tick that holds, every later
\* tick of the call holds.
C13_ReferenceSelection ==
    (variant = "poly" /\ Ticked) =>
        /\ t = Len(env_log) - 2
        /\ \A i \in DOMAIN env_log :
              /\ PastT(i - 2) => IsHold(env_log[i].x)
              /\ (traj.T2 # NaN /\ ~PastT(i - 2)) => IsTrack(env_log[i].x, i - 2)
        /\ \A i \in DOMAIN env_log : \A j \in DOMAIN env_log :
              (i < j /\ IsHold(env_log[i].x)) => IsHold(env_log[j].x)

C13_Witness ==
    /\ variant = "poly" /\ pc = "loop"
    /\ traj.T2 = 36
    /\ Len(env_log) = 5
    /\ IsTrack(env_log[3].x, 1)
    /\ IsHold(env_log[4].x) /\ IsHold(env_log[5].x)

\* the default state vector with the target as its position
TargetVector ==
    [j \in 1..Len(FieldNames) |->
        IF j <= 3 THEN Const(action[j]) ELSE Const(State0[FieldNames[j]])]

\* C14: in a step call of the setpoint variant every call to the model's step
\* receives the same reference: the default state vector with the target as
\* position, zero velocity and zero angular fields; u keeps that value
\* through the loop.
C14_ConstantReference ==
    (variant = "lqr" /\ pc \in { "loop", "done" } /\ ret.op # "reset") =>
        /\ to_x(u) = TargetVector
        /\ \A j \in 8..16 : TargetVector[j] = Const(0)
        /\ \A i \in DOMAIN env_log : env_log[i].x = TargetVector

C14_Witness ==
    /\ variant = "lqr" /\ pc = "loop"
    /\ action = PosC
    /\ Len(env_log) = 4
    /\ env_log[1].obs # env_log[2].obs
    /\ env_log[4].x[3] = Const(1006)

Sq(a) == a * a

\* the model's state holds numbers in its position and angles
Numeric(s) == \A f \in { "x", "y", "z", "phi", "theta", "psi" } : s[f] # NaN

\* squared distance of the model's position from the target
PosErr2 ==
    Sq(action[1] - env_state["x"]) + Sq(action[2] - env_state["y"])
        + Sq(action[3] - env_state["z"])

\* squared norm of the model's angles (the setpoint's angles are zero)
RpyErr2 == Sq(env_state["phi"]) + Sq(env_state["theta"]) + Sq(env_state["psi"])

\* the last tick left the position within 0.01 of the target
PositionClose == Ticked /\ ret.op # "reset" /\ Numeric(env_state) /\ PosErr2 < Threshold2

\* the last tick left position and angles together at 0.01 or more
CombinedFar == PosErr2 + RpyErr2 >= Threshold2

\* C15 as stated: a tick of the trajectory variant with position distance
\* below 0.01 terminates whatever the angles are; a tick of the setpoint variant
\* with position error below 0.01 and combined position-and-angle error of
\* 0.01 or more does not terminate.
C15_Asymmetry ==
    /\ (variant = "poly" /\ PositionClose) => term
    /\ (variant = "lqr" /\ PositionClose /\ CombinedFar) => ~term

\* C15 amended: a tick of the trajectory variant with position distance below
\* 0.01 terminates whatever the angles are, with that distance as the error; a
\* tick of the setpoint variant with position error below 0.01 and combined
\* error of 0.01 or more is not terminated by the error test: terminated is
\* what the underlying model's step returned on that tick.
C15_AsymmetryOfTest ==
    /\ (variant = "poly" /\ PositionClose) => (term /\ dist = PosErr2)
    /\ (variant = "lqr" /\ PositionClose /\ CombinedFar) =>
            (term = LastCall.term /\ dist = PosErr2 + RpyErr2)
    /\ (variant = "lqr" /\ PositionClose /\ ~CombinedFar) => term

C15_Witness ==
    /\ variant = "lqr" /\ pc = "loop"
    /\ PositionClose /\ CombinedFar
    /\ RpyErr2 > 0 /\ PosErr2 > 0
    /\ ~term /\ ~trunc
    /\ Len(observations) >= 2

\* C16: whatever ended the loop, the reward step returns is get_reward of the
\* States it returns, which is the whole observation sequence of the call;
\* while the loop runs nothing has been returned or aggregated.
C16_RewardOfReturnedStates ==
    /\ Returned =>
          /\ ret.states = observations
          /\ Len(ret.states) = Len(env_log)
          /\ ret.reward = get_reward(ret.states)
    /\ pc = "loop" => ret = NoReturn

C16_Witness ==
    /\ Returned /\ ret.trunc /\ ~ret.term /\ dist = NaN
    /\ Len(ret.states) = 3
    /\ ret.reward > 0
    /\ ret.reward # get_reward(SubSeq(ret.states, 1, 2))

\* C17: every step call, also one that follows an earlier call on the same
\* environment, starts with an empty observation buffer, terminated and
\* truncated False, an empty info, the counter at -1 (first tick time -dt) and,
\* in the trajectory variant, a trajectory from the model's current state to
\* the new target; the States a call returns holds exactly the observations of
\* its own ticks.
C17_NoSharedLoopState ==
    [][ /\ (pc # "loop" /\ pc' = "loop") =>
              /\ observations' = <<>> /\ env_log' = <<>> /\ traj_evals' = <<>>
              /\ ~term' /\ ~trunc' /\ info' = EmptyDict
              /\ counter' = -1
              /\ (variant = "poly") =>
                    /\ traj'.start_pos = pos(env_state)
                    /\ traj'.start_vel = vel(env_state)
                    /\ traj'.dest_pos = action'
        /\ (pc' = "loop" /\ variant = "poly" /\ Len(observations') = 1) => t' = -1
        /\ (pc' = "done" /\ ret'.op = "step") =>
              /\ Len(ret'.states) = Len(env_log')
              /\ \A i \in DOMAIN env_log' : ret'.states[i] = env_log'[i].obs ]_vars

C17_Witness ==
    /\ stepped /\ variant = "poly" /\ pc = "loop"
    /\ Len(observations) = 1 /\ t = -1
    /\ traj.start_pos = PosD /\ action = PosC
    /\ ~term /\ ~trunc

\* C18 as stated: step never returns terminated and truncated both True.
C18_MutuallyExclusive == Returned => ~(ret.term /\ ret.trunc)

\* C18 amended: step returns terminated and truncated both True exactly when
\* the underlying model's step, on the last tick, returned terminated as True
\* together with truncated as True or a NaN error, or returned truncated as
\* True with an error below 0.01; with both of the model's flags False the
\* two outcomes exclude each other.
C18_ExclusiveUnlessModel ==
    Returned =>
        /\ (ret.term /\ ret.trunc) <=>
              \/ LastCall.term /\ (LastCall.trunc \/ dist = NaN)
              \/ LastCall.trunc /\ Below(dist)
        /\ (~LastCall.term /\ ~LastCall.trunc) => ~(ret.term /\ ret.trunc)

C18_Witness ==
    /\ Returned /\ ret.term /\ ret.trunc
    /\ LastCall.term /\ ~LastCall.trunc /\ dist = NaN
    /\ Len(ret.states) >= 2

\* C19: every step call runs at least one tick of the underlying model, also
\* when the model is within 0.01 of the target at call time: the loop cannot
\* be left before the first tick, and the returned States is never empty.
C19_AtLeastOneTick ==
    /\ (pc = "loop" /\ Len(env_log) = 0) => (~term /\ ~trunc /\ observations = <<>>)
    /\ Returned => (Len(ret.states) >= 1 /\ Len(env_log) >= 1)

C19_Witness ==
    /\ Returned /\ variant = "poly"
    /\ traj.start_pos = action /\ traj.T2 = 0
    /\ Len(ret.states) = 1
    /\ ret.term /\ info["error"] = 0
    /\ ~LastCall.term /\ ~LastCall.trunc

====
